---- MODULE Spec2Model ----
(***************************************************************************)
(* Model of sqlalchemy_to_pydantic (src/sqlalchemy_to_pydantic/            *)
(* converter.py): the translation of a table's column metadata into the    *)
(* field specifications of a pydantic model.                               *)
(*                                                                         *)
(* A column type object is modelled by the chain of objects reached by     *)
(* following its "impl" attribute: a non-empty sequence whose i-th element  *)
(* is the python_type attribute of the i-th object of the chain, or NoAttr *)
(* when that object has no such attribute.  The object has an "impl"       *)
(* attribute iff the chain goes on.                                        *)
(***************************************************************************)
EXTENDS Integers, Sequences, FiniteSets, TLC

VARIABLES db_model, default_exclude, orm_config, last, pinned

vars == <<db_model, default_exclude, orm_config, last, pinned>>

(* ------------------------------ bounds --------------------------------- *)

\* Largest number of columns of a table in the table specification.
MaxCols == 2

\* Largest number of "impl" links below a column type in the type specification.
MaxDepth == 2

(* ----------------------------- universe -------------------------------- *)

NoAttr == "NoAttr"

None == "None"

Ellipsis == "Ellipsis"

\* Column names, in the order the User fixture declares them.
ColumnOrder == <<"id", "name", "created">>

ColumnNames == {ColumnOrder[i] : i \in 1..Len(ColumnOrder)}

PythonTypes == {"int", "datetime"}

RECURSIVE ChainsOfLen(_)
ChainsOfLen(n) ==
    IF n = 0 THEN {<<>>}
    ELSE {<<p>> \o c : p \in PythonTypes \cup {NoAttr}, c \in ChainsOfLen(n - 1)}

\* Every column type object with at most d "impl" links below it.
TypeObjs(d) == UNION {ChainsOfLen(n) : n \in 1..(d + 1)}

\* The column types of the table specification: Integer, a type decorator
\* over DateTime (UtcDateTime), and a type with neither attribute.
TableTypes == {<<"int">>, <<"datetime", "datetime">>, <<NoAttr>>}

\* The value of the module-level default configuration.
OrmConfigValue == [from_attributes |-> TRUE, alias_generator |-> None]

\* Configurations a caller passes explicitly.
CallerConfigs == {[from_attributes |-> TRUE, alias_generator |-> "to_camel_case"]}

\* The subsequence of s at the positions in P.
RECURSIVE Pick(_, _, _)
Pick(s, P, i) ==
    IF i > Len(s) THEN <<>>
    ELSE (IF i \in P THEN <<s[i]>> ELSE <<>>) \o Pick(s, P, i + 1)

\* Tables of at most maxCols columns: the names are unique within a table
\* and keep their declaration order.
Tables(types, maxCols) ==
    UNION {
      {[i \in 1..Len(names) |->
          [name |-> names[i], nullable |-> nl[i], type |-> ty[i]]] :
        nl \in [1..Len(names) -> BOOLEAN], ty \in [1..Len(names) -> types]}
      : names \in {Pick(ColumnOrder, P, 1) :
                     P \in {Q \in SUBSET (1..Len(ColumnOrder)) : Cardinality(Q) <= maxCols}}}

\* The mapped class User with its table "users".
MakeModel(columns) ==
    [__name__ |-> "User",
     __tablename__ |-> "users",
     metadata |-> [tables |-> [t \in {"users"} |-> [columns |-> columns]]]]

NoCall ==
    [called |-> FALSE, exclude_given |-> FALSE, exclude_arg |-> {},
     exclude_after |-> {}, config_given |-> FALSE, config_arg |-> OrmConfigValue,
     config_after |-> OrmConfigValue, raised |-> None, message |-> <<>>,
     returned |-> <<>>]

(* ------------------------ the translation ------------------------------ *)

hasattr_impl(type) == Len(type) > 1

impl(type) == Tail(type)

hasattr_python_type(type) == Head(type) # NoAttr

python_type_of(type) == Head(type)

\* Variant: the column type's own python_type is preferred to impl's.
ResolvePythonType_DirectFirst(type) ==
    IF hasattr_python_type(type)
      THEN python_type_of(type)
      ELSE IF hasattr_impl(type) /\ hasattr_python_type(impl(type))
             THEN python_type_of(impl(type))
             ELSE None

\* converter.py 16-21: the python type the column's type resolves to, or None.
ResolvePythonType(type) ==
    IF hasattr_impl(type)
      THEN IF hasattr_python_type(impl(type))
             THEN python_type_of(impl(type))
             ELSE None
      ELSE IF hasattr_python_type(type)
             THEN python_type_of(type)
             ELSE None

\* Truth value of the resolved type in "assert python_type".
Truthy(python_type) == python_type # None

\* (python_type, ...)
RequiredField(python_type) ==
    [annotation |-> [optional |-> FALSE, type |-> python_type], default |-> Ellipsis]

\* (Optional[python_type], None)
OptionalField(python_type) ==
    [annotation |-> [optional |-> TRUE, type |-> python_type], default |-> None]

\* Variant: a new key goes to the front.
DictSet_Prepend(fields, name, spec) ==
    <<[name |-> name, spec |-> spec]>> \o
    SelectSeq(fields, LAMBDA f : f.name # name)

\* fields[name] = spec on an insertion-ordered dict.
DictSet(fields, name, spec) ==
    IF \E i \in 1..Len(fields) : fields[i].name = name
      THEN [i \in 1..Len(fields) |->
              IF fields[i].name = name THEN [name |-> name, spec |-> spec]
              ELSE fields[i]]
      ELSE Append(fields, [name |-> name, spec |-> spec])

\* str(column) in the assertion message: table name and column name.
ColumnStr(st, column) == <<st.db_model.__tablename__, column.name>>

\* Variant: the exclusion test is missing.
LoopBody_NoExclude(st, column) ==
    LET name == column.name
        python_type == ResolvePythonType(column.type) IN
    IF ~Truthy(python_type)
      THEN [st EXCEPT !.raised = "AssertionError",
                      !.message = ColumnStr(st, column)]
    ELSE IF ~column.nullable
      THEN [st EXCEPT !.fields = DictSet(@, name, RequiredField(python_type))]
      ELSE [st EXCEPT !.fields = DictSet(@, name, OptionalField(python_type))]

\* Variant: the nullability test is inverted.
LoopBody_NullableInverted(st, column) ==
    LET name == column.name IN
    IF name \in st.exclude THEN st
    ELSE LET python_type == ResolvePythonType(column.type) IN
         IF ~Truthy(python_type)
           THEN [st EXCEPT !.raised = "AssertionError",
                           !.message = ColumnStr(st, column)]
         ELSE IF column.nullable
           THEN [st EXCEPT !.fields = DictSet(@, name, RequiredField(python_type))]
           ELSE [st EXCEPT !.fields = DictSet(@, name, OptionalField(python_type))]

\* Variant: a column whose type does not resolve is skipped silently.
LoopBody_SilentSkip(st, column) ==
    LET name == column.name IN
    IF name \in st.exclude THEN st
    ELSE LET python_type == ResolvePythonType(column.type) IN
         IF ~Truthy(python_type) THEN st
         ELSE IF ~column.nullable
           THEN [st EXCEPT !.fields = DictSet(@, name, RequiredField(python_type))]
           ELSE [st EXCEPT !.fields = DictSet(@, name, OptionalField(python_type))]

\* Variant: each processed column's name is added to the exclude container.
LoopBody_MarkSeen(st, column) ==
    LET name == column.name IN
    IF name \in st.exclude THEN st
    ELSE LET python_type == ResolvePythonType(column.type) IN
         IF ~Truthy(python_type)
           THEN [st EXCEPT !.raised = "AssertionError",
                           !.message = ColumnStr(st, column)]
         ELSE IF ~column.nullable
           THEN [st EXCEPT !.fields = DictSet(@, name, RequiredField(python_type)),
                           !.exclude = @ \cup {name}]
           ELSE [st EXCEPT !.fields = DictSet(@, name, OptionalField(python_type)),
                           !.exclude = @ \cup {name}]

\* converter.py 13-27: one iteration of the loop over the columns.
LoopBody(st, column) ==
    LET name == column.name IN
    IF name \in st.exclude THEN st
    ELSE LET python_type == ResolvePythonType(column.type) IN
         IF ~Truthy(python_type)
           THEN [st EXCEPT !.raised = "AssertionError",
                           !.message = ColumnStr(st, column)]
         ELSE IF ~column.nullable
           THEN [st EXCEPT !.fields = DictSet(@, name, RequiredField(python_type))]
           ELSE [st EXCEPT !.fields = DictSet(@, name, OptionalField(python_type))]

\* Variant: an excluded column ends the loop (break for continue).
RECURSIVE ForColumns_Break(_, _)
ForColumns_Break(st, columns) ==
    IF columns = <<>> \/ st.raised # None THEN st
    ELSE IF Head(columns).name \in st.exclude THEN st
    ELSE ForColumns_Break(LoopBody(st, Head(columns)), Tail(columns))

\* converter.py 12: the loop; an exception ends it.
RECURSIVE ForColumns(_, _)
ForColumns(st, columns) ==
    IF columns = <<>> \/ st.raised # None THEN st
    ELSE ForColumns(LoopBody(st, Head(columns)), Tail(columns))

\* pydantic's create_model as called at converter.py 29.
create_model(name, config, fields) ==
    [__name__ |-> name, model_config |-> config, model_fields |-> fields]

\* Variant: the model is always built with the default configuration.
BuildModel_DefaultConfig(st) ==
    <<create_model(st.db_model.__name__, OrmConfigValue, st.fields)>>

\* converter.py 29-30: the model built from the state the loop left.
BuildModel(st) ==
    <<create_model(st.db_model.__name__, st.config, st.fields)>>

\* converter.py 7-30: the whole function, on the objects it is handed.
\* The result carries the objects as the call leaves them.
sqlalchemy_to_pydantic(model, config, exclude) ==
    LET table == model.metadata.tables[model.__tablename__]
        st0 == [db_model |-> model, config |-> config, exclude |-> exclude,
                fields |-> <<>>, raised |-> None, message |-> <<>>]
        st == ForColumns(st0, table.columns)
    IN  [db_model |-> st.db_model, config |-> st.config, exclude |-> st.exclude,
         raised |-> st.raised, message |-> st.message,
         returned |-> IF st.raised = None THEN BuildModel(st) ELSE <<>>]

(* ----------------------------- the calls ------------------------------- *)

CallRecord(r, exclGiven, excl, cfgGiven, cfg) ==
    [called |-> TRUE, exclude_given |-> exclGiven, exclude_arg |-> excl,
     exclude_after |-> r.exclude, config_given |-> cfgGiven, config_arg |-> cfg,
     config_after |-> r.config, raised |-> r.raised, message |-> r.message,
     returned |-> r.returned]

\* History: when a call is made, the call before it may be kept for
\* comparison with every later call; a kept call stays.
Pin ==
    IF pinned.called THEN pinned' = pinned ELSE pinned' \in {pinned, last}

\* sqlalchemy_to_pydantic(db_model): both keyword arguments take the defaults,
\* which are the shared objects orm_config and the default exclude list.
CallDefaults ==
    \E r \in {sqlalchemy_to_pydantic(db_model, orm_config, default_exclude)} :
    /\ db_model' = r.db_model
    /\ orm_config' = r.config
    /\ default_exclude' = r.exclude
    /\ last' = CallRecord(r, FALSE, default_exclude, FALSE, orm_config)
    /\ Pin

\* sqlalchemy_to_pydantic(db_model, config=c)
CallConfig ==
    \E c \in CallerConfigs :
      \E r \in {sqlalchemy_to_pydantic(db_model, c, default_exclude)} :
      /\ db_model' = r.db_model
      /\ default_exclude' = r.exclude
      /\ last' = CallRecord(r, FALSE, default_exclude, TRUE, c)
      /\ Pin
      /\ UNCHANGED orm_config

\* sqlalchemy_to_pydantic(db_model, exclude=E)
CallExclude ==
    \E E \in SUBSET ColumnNames :
      \E r \in {sqlalchemy_to_pydantic(db_model, orm_config, E)} :
      /\ db_model' = r.db_model
      /\ orm_config' = r.config
      /\ last' = CallRecord(r, TRUE, E, FALSE, orm_config)
      /\ Pin
      /\ UNCHANGED default_exclude

\* sqlalchemy_to_pydantic(db_model, config=c, exclude=E)
CallConfigExclude ==
    \E c \in CallerConfigs, E \in SUBSET ColumnNames :
      \E r \in {sqlalchemy_to_pydantic(db_model, c, E)} :
      /\ db_model' = r.db_model
      /\ last' = CallRecord(r, TRUE, E, TRUE, c)
      /\ Pin
      /\ UNCHANGED <<orm_config, default_exclude>>

Next == CallDefaults \/ CallConfig \/ CallExclude \/ CallConfigExclude

\* converter.py 5 and 8: the module's orm_config and the function's default
\* exclude list (its members, as a set), both shared by every call.
InitCommon ==
    /\ default_exclude = {}
    /\ orm_config = OrmConfigValue
    /\ last = NoCall
    /\ pinned = NoCall

\* Tables of up to MaxCols columns over the table types.
Init ==
    /\ \E columns \in Tables(TableTypes, MaxCols) :
         db_model = MakeModel(columns)
    /\ InitCommon

Spec == Init /\ [][Next]_vars

\* One-column tables over every column type of depth up to MaxDepth.
InitTypes ==
    /\ \E nl \in BOOLEAN, ty \in TypeObjs(MaxDepth) :
         db_model = MakeModel(<<[name |-> "id", nullable |-> nl, type |-> ty]>>)
    /\ InitCommon

SpecTypes == InitTypes /\ [][Next]_vars

(* --------------------------- the properties ---------------------------- *)

Columns == db_model.metadata.tables[db_model.__tablename__].columns

ColumnNamesOf == {Columns[j].name : j \in 1..Len(Columns)}

Ok(c) == c.called /\ c.raised = None /\ Len(c.returned) = 1

Failed(c) == c.called /\ c.raised # None

FieldsOf(c) == c.returned[1].model_fields

FieldNameSeq(c) == [i \in 1..Len(FieldsOf(c)) |-> FieldsOf(c)[i].name]

FieldNameSet(c) == {FieldsOf(c)[i].name : i \in 1..Len(FieldsOf(c))}

RequiredSet(c) ==
    {FieldsOf(c)[i].name : i \in {k \in 1..Len(FieldsOf(c)) :
                                    FieldsOf(c)[k].spec.default = Ellipsis}}

\* The columns the call's exclusion set leaves, in column order.
Kept(c) == SelectSeq(Columns, LAMBDA col : col.name \notin c.exclude_arg)

\* The column type exposes a native type neither directly nor one level down.
Unresolvable(type) ==
    /\ type[1] = NoAttr
    /\ Len(type) = 1 \/ type[2] = NoAttr

SameConfig(a, b) == a.config_arg = b.config_arg

SameInputs(a, b) ==
    /\ a.exclude_given = b.exclude_given
    /\ a.exclude_given => a.exclude_arg = b.exclude_arg
    /\ a.config_given = b.config_given
    /\ a.config_given => a.config_arg = b.config_arg

SameOutcome(a, b) ==
    /\ a.raised = b.raised
    /\ a.message = b.message
    /\ a.returned = b.returned

\* C1: when the derivation succeeds, the field names are exactly the names
\* of the columns that are not excluded, one field per such column.
C1_FieldsAreKeptColumns ==
    Ok(last) =>
      /\ FieldNameSet(last) = ColumnNamesOf \ last.exclude_arg
      /\ Len(FieldsOf(last)) = Cardinality(ColumnNamesOf \ last.exclude_arg)

\* A successful call on a two-column table that excludes one of its columns.
C1_Witness ==
    /\ Ok(last)
    /\ Len(Columns) = 2
    /\ Cardinality(last.exclude_arg \cap ColumnNamesOf) = 1
    /\ Len(FieldsOf(last)) = 1

\* C2: in a derived schema a non-nullable column's field is (native type,
\* required, no default) and a nullable column's field is (Optional native
\* type, default None); the required fields are exactly the non-excluded
\* non-nullable columns.
C2_Optionality ==
    Ok(last) =>
      /\ \A j \in 1..Len(Columns) :
           Columns[j].name \notin last.exclude_arg =>
             \E i \in 1..Len(FieldsOf(last)) :
               LET f == FieldsOf(last)[i] IN
               /\ f.name = Columns[j].name
               /\ f.spec.annotation.type \in PythonTypes
               /\ f.spec.annotation.optional = Columns[j].nullable
               /\ f.spec.default = (IF Columns[j].nullable THEN None ELSE Ellipsis)
      /\ RequiredSet(last) =
           {Columns[j].name : j \in {k \in 1..Len(Columns) :
               /\ ~Columns[k].nullable
               /\ Columns[k].name \notin last.exclude_arg}}

\* A derived schema with a required field and an optional one.
C2_Witness ==
    /\ Ok(last)
    /\ Len(FieldsOf(last)) = 2
    /\ Cardinality(RequiredSet(last)) = 1

\* The schema of b is the schema of a without field X.
WithoutField(a, b, X) ==
    /\ FieldsOf(b) = SelectSeq(FieldsOf(a), LAMBDA f : f.name # X)
    /\ RequiredSet(b) = RequiredSet(a) \ {X}

ExcludesOnly(a, b) ==
    /\ a.called /\ b.called
    /\ a.exclude_arg = {}
    /\ b.exclude_given
    /\ SameConfig(a, b)

\* C3: for a column X, when deriving with an empty exclusion set succeeds,
\* deriving with exclude = {X} succeeds too and its schema is the other one
\* without field X: the other fields are identical and in place, and the
\* required set is the other required set minus X.
C3_ExcludeRemovesOneField ==
    \A X \in ColumnNamesOf :
      /\ (ExcludesOnly(pinned, last) /\ last.exclude_arg = {X} /\ Ok(pinned)) =>
           Ok(last) /\ WithoutField(pinned, last, X)
      /\ (ExcludesOnly(last, pinned) /\ pinned.exclude_arg = {X} /\ Ok(last)) =>
           Ok(pinned) /\ WithoutField(last, pinned, X)

\* Two schemas of a two-column table, the later one excluding the first column.
C3_Witness ==
    /\ ExcludesOnly(pinned, last)
    /\ Ok(pinned) /\ Ok(last)
    /\ Len(Columns) = 2
    /\ last.exclude_arg = {Columns[1].name}
    /\ Len(FieldsOf(pinned)) = 2
    /\ Len(FieldsOf(last)) = 1

\* The non-excluded columns whose type does not resolve.
BadColumns(c) ==
    {j \in 1..Len(Columns) :
       /\ Columns[j].name \notin c.exclude_arg
       /\ Unresolvable(Columns[j].type)}

\* C4: when some non-excluded column's type exposes a native type neither
\* directly nor one level down, the call raises (AssertionError in the
\* code), the message names such a column of the table, and nothing is
\* returned, the fields built before the failure included.
C4_FailsWithoutPartialSchema ==
    (last.called /\ BadColumns(last) # {}) =>
      /\ last.raised = "AssertionError"
      /\ last.returned = <<>>
      /\ \E j \in BadColumns(last) :
           last.message = <<db_model.__tablename__, Columns[j].name>>

\* A failing call whose first column resolved before the second one failed.
C4_Witness ==
    /\ Failed(last)
    /\ Len(Columns) = 2
    /\ BadColumns(last) = {2}
    /\ Columns[1].name \notin last.exclude_arg
    /\ last.message[2] = Columns[2].name

\* C5: the returned type is named after the model class and carries the
\* configuration of the call (the default one when none is passed); the
\* configuration objects are left as they were, and the fields do not
\* depend on the configuration.
C5_NameAndConfig ==
    /\ orm_config = OrmConfigValue
    /\ last.called => last.config_after = last.config_arg
    /\ Ok(last) =>
         /\ last.returned[1].__name__ = db_model.__name__
         /\ last.returned[1].model_config =
              (IF last.config_given THEN last.config_arg ELSE OrmConfigValue)
    /\ (pinned.called /\ last.called /\ pinned.exclude_arg = last.exclude_arg) =>
         /\ Ok(pinned) = Ok(last)
         /\ Ok(last) => FieldsOf(pinned) = FieldsOf(last)

\* Two successful calls with the same exclusion and different configurations.
C5_Witness ==
    /\ Ok(pinned) /\ Ok(last)
    /\ ~pinned.config_given /\ last.config_given
    /\ last.config_arg # OrmConfigValue
    /\ last.returned[1].model_config = last.config_arg
    /\ pinned.exclude_arg = last.exclude_arg
    /\ Len(FieldsOf(last)) = 2

C6Step ==
    /\ db_model' = db_model
    /\ default_exclude' = default_exclude
    /\ last'.exclude_after = last'.exclude_arg
    /\ ~last'.exclude_given => last'.exclude_arg = {}
    /\ (/\ ~last'.exclude_given
        /\ pinned'.called /\ pinned'.exclude_given /\ pinned'.exclude_arg = {}
        /\ SameConfig(pinned', last')) => SameOutcome(pinned', last')

\* C6: no call, successful or failing, changes the model class, its table,
\* the exclude container it is given or the shared default exclude
\* container; a call that omits exclude therefore runs with an empty
\* exclusion set and ends as a call given an empty set does.
C6_NoMutation == [][C6Step]_vars

\* A successful call without exclude, on a two-column table, made after a
\* kept call that was given an empty exclusion set.
C6_Witness ==
    /\ pinned.called /\ pinned.exclude_given /\ pinned.exclude_arg = {}
    /\ last.called /\ ~last.exclude_given
    /\ SameConfig(pinned, last)
    /\ Ok(last) /\ Len(FieldsOf(last)) = 2
    /\ default_exclude = {}

\* C7: two calls with the same arguments on the same model, whatever calls
\* were made in between, end the same way: the same fields (names,
\* required or optional, types), or the same failure.
C7_Idempotent ==
    (pinned.called /\ last.called /\ SameInputs(pinned, last)) =>
      SameOutcome(pinned, last)

\* A repeated successful call with default arguments and two fields.
C7_Witness ==
    /\ Ok(pinned) /\ Ok(last)
    /\ SameInputs(pinned, last)
    /\ ~last.exclude_given
    /\ Len(FieldsOf(last)) = 2

\* C8: a non-excluded column whose type exposes a native type on at least
\* one of the two paths (directly, or one level down) is resolved, and the
\* call does not fail on it.
C8_EitherPathResolves ==
    (/\ last.called
     /\ Len(Columns) = 1
     /\ Columns[1].name \notin last.exclude_arg
     /\ ~Unresolvable(Columns[1].type)) =>
       /\ Ok(last)
       /\ FieldsOf(last)[1].spec.annotation.type \in PythonTypes

\* C9: when the column type has an underlying type that exposes a native
\* type, the field's type is that one, whatever the column type exposes
\* itself; when the column type has no underlying type, the field's type is
\* its own native type; the lookup never goes two levels down.
C9_UnwrapOneLevel ==
    (/\ last.called
     /\ Len(Columns) = 1
     /\ Columns[1].name \notin last.exclude_arg) =>
       LET ty == Columns[1].type IN
       /\ (Len(ty) >= 2 /\ ty[2] # NoAttr) =>
            Ok(last) /\ FieldsOf(last)[1].spec.annotation.type = ty[2]
       /\ (Len(ty) = 1 /\ ty[1] # NoAttr) =>
            Ok(last) /\ FieldsOf(last)[1].spec.annotation.type = ty[1]
       /\ (Len(ty) >= 3 /\ ty[2] = NoAttr) => Failed(last)

\* A wrapper of a wrapper, every level exposing a native type, the middle
\* one another type than the outer and the inner one.
C9_Witness ==
    /\ Ok(last)
    /\ Len(Columns) = 1
    /\ Len(FieldsOf(last)) = 1
    /\ Len(Columns[1].type) = 3
    /\ Columns[1].type[1] \in PythonTypes
    /\ Columns[1].type[3] \in PythonTypes
    /\ Columns[1].type[2] # Columns[1].type[1]
    /\ Columns[1].type[2] # Columns[1].type[3]
    /\ FieldsOf(last)[1].spec.annotation.type = Columns[1].type[2]

\* C10: the fields are declared in the column order of the non-excluded
\* columns.
C10_ColumnOrder ==
    Ok(last) =>
      FieldNameSeq(last) = [i \in 1..Len(Kept(last)) |-> Kept(last)[i].name]

\* Two fields declared in column order.
C10_Witness ==
    /\ Ok(last)
    /\ Len(Columns) = 2
    /\ FieldNameSeq(last) = <<Columns[1].name, Columns[2].name>>

====
